---- MODULE Spec2Model ----
(***************************************************************************)
(* spacetime-token: named profiles (name -> token) kept in profiles.toml  *)
(* and the active token of the external CLI kept in cli.toml.              *)
(*                                                                         *)
(* State: the two files.  One action per command handler of main(); a     *)
(* handler is a pure function of the two files and its arguments, written *)
(* as an operator that returns the files it leaves and what it reported.  *)
(*                                                                         *)
(* Scope: the application settings are the defaults (the `setup` command  *)
(* and load_app_settings are not modelled), and fs::write /               *)
(* fs::create_dir_all succeed.  Failures that depend on file contents     *)
(* (absent file, file that does not parse, key missing or of wrong type)  *)
(* are modelled.                                                           *)
(*                                                                         *)
(* Spec      the commands, one after another, each as one action.          *)
(* SpecRace  two invocations of `set` at once, one step per file access.   *)
(* SpecMask  mask_token applied to tokens of bounded length.               *)
(***************************************************************************)
EXTENDS Integers, Sequences, FiniteSets, TLC

\* ---------------------------------------------------------------- bounds
MaxNames == 2
MaxTokens == 2

ProfileNamePool == <<"a", "b", "c", "d">>
TokenPool == <<"tok1", "tok2", "tok3", "tok4">>

\* "admin" is the name Commands::Admin looks up.
AdminName == "admin"
Names == {AdminName} \cup {ProfileNamePool[i] : i \in 1..MaxNames}
Tokens == {TokenPool[i] : i \in 1..MaxTokens}

\* Option<String>::None for an omitted argument or a cancelled selection.
NoName == "-"
NoToken == "-"

\* AppSettings::default().cli_token_key, and one key the tool never names.
TokenKey == "spacetimedb_token"
OtherKey == "default_server"

\* ------------------------------------------------------- file contents
\* A TOML value: a string, or anything else (here an integer).
Str(s) == [type |-> "str", v |-> s]
NotStr == [type |-> "int", v |-> "0"]

EmptyMap == [n \in {} |-> NoToken]
EmptyDoc == [k \in {} |-> NotStr]

Insert(m, k, v) == [x \in (DOMAIN m) \cup {k} |-> IF x = k THEN v ELSE m[x]]
Remove(m, k) == [x \in (DOMAIN m) \ {k} |-> m[x]]

\* profiles.toml: absent, unparsable ("corrupt"), or a table name -> token.
\* A whitespace-only file is the empty table.
ProfileMaps == UNION {[S -> Tokens] : S \in SUBSET Names}
ProfileFiles ==
    {[st |-> "absent", map |-> EmptyMap], [st |-> "corrupt", map |-> EmptyMap]}
    \cup {[st |-> "ok", map |-> m] : m \in ProfileMaps}

\* cli.toml: absent, unparsable, or a document key -> value.
TokenValues == {Str(t) : t \in Tokens} \cup {NotStr}
CliDocs ==
    {d \in UNION {[S -> TokenValues \cup {Str("local")}] : S \in SUBSET {TokenKey, OtherKey}} :
        /\ TokenKey \in DOMAIN d => d[TokenKey] \in TokenValues
        /\ OtherKey \in DOMAIN d => d[OtherKey] = Str("local")}
CliFiles ==
    {[st |-> "absent", doc |-> EmptyDoc], [st |-> "unparsable", doc |-> EmptyDoc]}
    \cup {[st |-> "ok", doc |-> d] : d \in CliDocs}

\* profiles, cli: the two files.  last: the command that ran last.
\* maskIn, maskOut: an argument of mask_token and what the call produced.
\* pc, mem: for each of two concurrent invocations, the step it is at and
\* what it holds in memory (its arguments, the map and the document it
\* read, its result).
VARIABLES profiles, cli, last, maskIn, maskOut, pc, mem
vars == <<profiles, cli, last, maskIn, maskOut, pc, mem>>

\* ------------------------------------------------------------- helpers
\* read_profiles: an absent file is created empty; a file that does not
\* parse is an error; `file` is what is on disk afterwards.
read_profiles(p) ==
    IF p.st = "absent"
    THEN [ok |-> TRUE, map |-> EmptyMap, file |-> [st |-> "ok", map |-> EmptyMap]]
    ELSE IF p.st = "corrupt"
    THEN [ok |-> FALSE, map |-> EmptyMap, file |-> p]
    ELSE [ok |-> TRUE, map |-> p.map, file |-> p]

\* write_profiles: the whole file is rewritten from the in-memory map.
write_profiles(m) == [st |-> "ok", map |-> m]

\* read_cli_toml: fails on a file that does not parse.
read_cli_toml(c) ==
    IF c.st = "ok" THEN [ok |-> TRUE, doc |-> c.doc] ELSE [ok |-> FALSE, doc |-> EmptyDoc]

\* Faulty variant: the document is always started afresh instead of being read.
open_or_new_cli_toml_AlwaysNew(c) ==
    IF c.st = "unparsable" THEN [ok |-> FALSE, doc |-> EmptyDoc]
    ELSE [ok |-> TRUE, doc |-> EmptyDoc]

\* `if cli_toml_path.exists() { read_cli_toml()? } else { DocumentMut::new() }`
open_or_new_cli_toml(c) ==
    IF c.st = "absent" THEN [ok |-> TRUE, doc |-> EmptyDoc] ELSE read_cli_toml(c)

\* cli_toml[&settings.cli_token_key] = Item::Value(token.into())
set_active_token(doc, token) == Insert(doc, TokenKey, Str(token))

\* write_cli_toml: the whole document is written back.
write_cli_toml(doc) == [st |-> "ok", doc |-> doc]

\* What a handler leaves behind and reports.
Outcome(p, c, res) ==
    [profiles |-> p, cli |-> c, res |-> res, name |-> NoName, out |-> "",
     reported |-> NoName, marks |-> {}, listed |-> <<>>, procs |-> <<>>]

\* ---------------------------------------------------------- mask_token
\* A token is a Rust String: a sequence of characters, each encoded in
\* UTF-8 as one or more bytes.  len() and the slices of mask_token count
\* bytes, and a slice whose end is inside a character panics.
MaxTokenLen == 11
WideChars == {"é"}
MaskChars == {"a"} \cup WideChars
Utf8Len(ch) == IF ch \in WideChars THEN 2 ELSE 1

RECURSIVE ByteLen(_)
\* str::len
ByteLen(s) == IF s = <<>> THEN 0 ELSE Utf8Len(Head(s)) + ByteLen(Tail(s))

\* str::is_char_boundary
IsCharBoundary(s, i) == \E k \in 0..Len(s) : ByteLen(SubSeq(s, 1, k)) = i
\* The number of characters before byte index i, a character boundary.
CharsBefore(s, i) == CHOOSE k \in 0..Len(s) : ByteLen(SubSeq(s, 1, k)) = i
\* &s[..i] and &s[i..]
SliceTo(s, i) == SubSeq(s, 1, CharsBefore(s, i))
SliceFrom(s, i) == SubSeq(s, CharsBefore(s, i) + 1, Len(s))

\* The longest token shown in full, and the bytes kept at each end.
MaskThreshold == 10
MaskKeep == 5
Dots == <<".", ".", ".">>

NotCalled == [st |-> "none", s |-> <<>>]
Returned(s) == [st |-> "ok", s |-> s]
Panicked == [st |-> "panic", s |-> <<>>]

\* mask_token
mask_token(s) ==
    IF ByteLen(s) <= MaskThreshold THEN Returned(s)
    ELSE IF ~IsCharBoundary(s, MaskKeep) \/ ~IsCharBoundary(s, ByteLen(s) - MaskKeep)
    THEN Panicked
    ELSE Returned(SliceTo(s, MaskKeep) \o Dots \o SliceFrom(s, ByteLen(s) - MaskKeep))

\* ------------------------------------------------------------ handlers
\* Faulty variant: the token written to cli.toml is looked up in the map as it was
\* read, before the upsert.
set_StaleToken(p, c, name, token) ==
    LET r == read_profiles(p)
        p1 == write_profiles(Insert(r.map, name, token))
        d == open_or_new_cli_toml(c)
        t == IF name \in DOMAIN r.map THEN r.map[name] ELSE token
    IN  IF ~r.ok THEN [Outcome(p, c, "Corrupt") EXCEPT !.name = name]
        ELSE IF ~d.ok THEN [Outcome(p1, c, "ParseError") EXCEPT !.name = name]
        ELSE [Outcome(p1, write_cli_toml(set_active_token(d.doc, t)), "ok")
                EXCEPT !.name = name]

\* Commands::Set: upsert the profile and persist it, then put the token
\* under the token key of cli.toml (created when absent).
set(p, c, name, token) ==
    LET r == read_profiles(p)
        p1 == write_profiles(Insert(r.map, name, token))
        d == open_or_new_cli_toml(c)
    IN  IF ~r.ok THEN [Outcome(p, c, "Corrupt") EXCEPT !.name = name]
        ELSE IF ~d.ok THEN [Outcome(p1, c, "ParseError") EXCEPT !.name = name]
        ELSE [Outcome(p1, write_cli_toml(set_active_token(d.doc, token)), "ok")
                EXCEPT !.name = name]

\* Faulty variant: the document is changed in memory but never written back.
activate_NoWrite(pf, m, c, name) ==
    LET d == open_or_new_cli_toml(c)
    IN  IF name \in DOMAIN m
        THEN IF ~d.ok THEN [Outcome(pf, c, "ParseError") EXCEPT !.name = name]
             ELSE [Outcome(pf, c, "ok") EXCEPT !.name = name]
        ELSE [Outcome(pf, c, "NotFound") EXCEPT !.name = name]

\* Faulty variant: cli.toml is opened (and created when absent) before the name is
\* looked up.
activate_WriteBeforeLookup(pf, m, c, name) ==
    LET d == open_or_new_cli_toml(c)
    IN  IF ~d.ok THEN [Outcome(pf, c, "ParseError") EXCEPT !.name = name]
        ELSE IF name \in DOMAIN m
        THEN [Outcome(pf, write_cli_toml(set_active_token(d.doc, m[name])), "ok")
                EXCEPT !.name = name]
        ELSE [Outcome(pf, write_cli_toml(d.doc), "NotFound") EXCEPT !.name = name]

\* The body shared by Switch (lines 333-363) and Admin (lines 368-397):
\* copy the profile's token into cli.toml, or fail when the name is no key.
\* `pf` is profiles.toml as read_profiles left it, `m` the map it returned.
activate(pf, m, c, name) ==
    LET d == open_or_new_cli_toml(c)
    IN  IF name \in DOMAIN m
        THEN IF ~d.ok THEN [Outcome(pf, c, "ParseError") EXCEPT !.name = name]
             ELSE [Outcome(pf, write_cli_toml(set_active_token(d.doc, m[name])), "ok")
                     EXCEPT !.name = name]
        ELSE [Outcome(pf, c, "NotFound") EXCEPT !.name = name]

\* Commands::Switch.  arg = NoName: the name was omitted and `sel` is what
\* the interactive selection returned (NoName: cancelled).
switch(p, c, arg, sel) ==
    LET r == read_profiles(p)
    IN  IF ~r.ok THEN [Outcome(p, c, "Corrupt") EXCEPT !.name = arg]
        ELSE IF arg # NoName THEN activate(r.file, r.map, c, arg)
        ELSE IF DOMAIN r.map = {} THEN Outcome(r.file, c, "NoProfiles")
        ELSE IF sel = NoName THEN Outcome(r.file, c, "Cancelled")
        ELSE activate(r.file, r.map, c, sel)

\* Commands::Admin.
admin(p, c) ==
    LET r == read_profiles(p)
    IN  IF ~r.ok THEN Outcome(p, c, "Corrupt")
        ELSE activate(r.file, r.map, c, AdminName)

\* Faulty variant: the value under the token key is stored whatever its type.
capture_token_AnyType(pf, m, c, doc, name) ==
    IF TokenKey \notin DOMAIN doc
    THEN [Outcome(pf, c, "NotLoggedIn") EXCEPT !.name = name]
    ELSE [Outcome(write_profiles(Insert(m, name, doc[TokenKey].v)), c, "ok")
            EXCEPT !.name = name]

\* Lines 416-443 of Save and 485-512 of Create: store the active token of
\* the document under `name`, or fail when it is missing or no string.
capture_token(pf, m, c, doc, name) ==
    IF TokenKey \notin DOMAIN doc
    THEN [Outcome(pf, c, "NotLoggedIn") EXCEPT !.name = name]
    ELSE IF doc[TokenKey].type # "str"
    THEN [Outcome(pf, c, "WrongType") EXCEPT !.name = name]
    ELSE [Outcome(write_profiles(Insert(m, name, doc[TokenKey].v)), c, "ok")
            EXCEPT !.name = name]

\* Faulty variant: the token is looked at before the name.
save_TokenFirst(p, c, name) ==
    LET d == read_cli_toml(c)
        r == read_profiles(p)
    IN  IF c.st = "absent" THEN [Outcome(p, c, "DocNotFound") EXCEPT !.name = name]
        ELSE IF ~d.ok THEN [Outcome(p, c, "ParseError") EXCEPT !.name = name]
        ELSE IF ~r.ok THEN [Outcome(p, c, "Corrupt") EXCEPT !.name = name]
        ELSE IF TokenKey \notin DOMAIN d.doc
        THEN [Outcome(r.file, c, "NotLoggedIn") EXCEPT !.name = name]
        ELSE IF d.doc[TokenKey].type # "str"
        THEN [Outcome(r.file, c, "WrongType") EXCEPT !.name = name]
        ELSE IF name \in DOMAIN r.map
        THEN [Outcome(r.file, c, "AlreadyExists") EXCEPT !.name = name]
        ELSE [Outcome(write_profiles(Insert(r.map, name, d.doc[TokenKey].v)), c, "ok")
                EXCEPT !.name = name]

\* Commands::Save: cli.toml is checked and read first, then the name.
save(p, c, name) ==
    LET d == read_cli_toml(c)
        r == read_profiles(p)
    IN  IF c.st = "absent" THEN [Outcome(p, c, "DocNotFound") EXCEPT !.name = name]
        ELSE IF ~d.ok THEN [Outcome(p, c, "ParseError") EXCEPT !.name = name]
        ELSE IF ~r.ok THEN [Outcome(p, c, "Corrupt") EXCEPT !.name = name]
        ELSE IF name \in DOMAIN r.map
        THEN [Outcome(r.file, c, "AlreadyExists") EXCEPT !.name = name]
        ELSE capture_token(r.file, r.map, c, d.doc, name)

\* Faulty variant: the store is loaded before it is cleared.
reset_ReadsFirst(p, c) ==
    IF read_profiles(p).ok THEN Outcome(write_profiles(EmptyMap), c, "ok")
    ELSE Outcome(p, c, "Corrupt")

\* Commands::Reset: the file is overwritten without being read.
reset(p, c) == Outcome(write_profiles(EmptyMap), c, "ok")

\* Faulty variant: deleting the profile whose token is active also removes the
\* token key from cli.toml.
delete_LogsOut(p, c, name) ==
    LET r == read_profiles(p)
        active == c.st = "ok" /\ TokenKey \in DOMAIN c.doc /\ c.doc[TokenKey] = Str(r.map[name])
    IN  IF ~r.ok THEN [Outcome(p, c, "Corrupt") EXCEPT !.name = name]
        ELSE IF name \in DOMAIN r.map
        THEN [Outcome(write_profiles(Remove(r.map, name)),
                      IF active THEN write_cli_toml(Remove(c.doc, TokenKey)) ELSE c,
                      "ok") EXCEPT !.name = name]
        ELSE [Outcome(r.file, c, "NotFound") EXCEPT !.name = name]

\* Faulty variant: the removal also drops the profiles that share the removed token.
delete_ByToken(p, c, name) ==
    LET r == read_profiles(p)
        kept == {n \in DOMAIN r.map : r.map[n] # r.map[name]}
    IN  IF ~r.ok THEN [Outcome(p, c, "Corrupt") EXCEPT !.name = name]
        ELSE IF name \in DOMAIN r.map
        THEN [Outcome(write_profiles([n \in kept |-> r.map[n]]), c, "ok")
                EXCEPT !.name = name]
        ELSE [Outcome(r.file, c, "NotFound") EXCEPT !.name = name]

\* Commands::Delete.
delete(p, c, name) ==
    LET r == read_profiles(p)
    IN  IF ~r.ok THEN [Outcome(p, c, "Corrupt") EXCEPT !.name = name]
        ELSE IF name \in DOMAIN r.map
        THEN [Outcome(write_profiles(Remove(r.map, name)), c, "ok") EXCEPT !.name = name]
        ELSE [Outcome(r.file, c, "NotFound") EXCEPT !.name = name]

\* Lines 516-528 of List: the active token when cli.toml exists, parses and
\* holds a string under the token key; every failure is swallowed.
active_token_opt(c) ==
    IF c.st = "ok" /\ TokenKey \in DOMAIN c.doc /\ c.doc[TokenKey].type = "str"
    THEN {c.doc[TokenKey].v} ELSE {}

\* sorted_profile_names.sort(): byte order of the names of the pools.
LexOrder == <<"a", "admin", "b", "c", "d">>
sorted_profile_names(m) == SelectSeq(LexOrder, LAMBDA n : n \in DOMAIN m)

\* The loop of List: each name whose token equals the active token gets
\* " (current)" appended.
current_marks(m, active) == {n \in DOMAIN m : m[n] \in active}

\* Commands::List.
list(p, c) ==
    LET r == read_profiles(p)
    IN  IF ~r.ok THEN Outcome(p, c, "Corrupt")
        ELSE IF DOMAIN r.map = {}
        THEN [Outcome(r.file, c, "ok") EXCEPT !.out = "NoProfilesFound"]
        ELSE [Outcome(r.file, c, "ok") EXCEPT
                !.out = "Listing",
                !.listed = sorted_profile_names(r.map),
                !.marks = current_marks(r.map, active_token_opt(c))]

\* Faulty variant: the scan stops at the first profile, whatever its token.
current_matches_AnyProfile(m, token) ==
    IF \E n \in DOMAIN m : m[n] = token THEN DOMAIN m ELSE {}

\* The loop of Current: the profiles the scan over the HashMap can stop at.
\* The iteration order of a HashMap is unspecified, so any of them can be
\* the first one met.
current_matches(m, token) == {n \in DOMAIN m : m[n] = token}

\* Commands::Current.  `pick` is the match the iteration meets first.
current(p, c, pick) ==
    LET r == read_profiles(p)
        tok == c.doc[TokenKey].v
    IN  IF c.st = "absent" THEN [Outcome(p, c, "ok") EXCEPT !.out = "NoFile"]
        ELSE IF c.st # "ok" THEN Outcome(p, c, "ParseError")
        ELSE IF TokenKey \notin DOMAIN c.doc
        THEN [Outcome(p, c, "ok") EXCEPT !.out = "NoActiveToken"]
        ELSE IF c.doc[TokenKey].type # "str"
        THEN [Outcome(p, c, "ok") EXCEPT !.out = "NotAString"]
        ELSE IF ~r.ok THEN Outcome(p, c, "Corrupt")
        ELSE IF current_matches(r.map, tok) = {}
        THEN [Outcome(r.file, c, "ok") EXCEPT !.out = "NoProfileMatches"]
        ELSE [Outcome(r.file, c, "ok") EXCEPT !.out = "Profile", !.reported = pick]

\* run_external_command(spacetime logout): what the external tool can leave
\* in cli.toml.  The tool is not part of this program: it may drop the
\* token key or leave the file alone, whatever status it exits with.
logout_effects(c) ==
    {c} \cup (IF c.st = "ok" THEN {[st |-> "ok", doc |-> Remove(c.doc, TokenKey)]} ELSE {})

\* run_external_command(spacetime login ...): the tool may store a fresh
\* token (creating or replacing the file when needed) or leave the file alone.
login_effects(c) ==
    {c} \cup {[st |-> "ok", doc |-> Insert(IF c.st = "ok" THEN c.doc ELSE EmptyDoc,
                                            TokenKey, Str(t))] : t \in Tokens}

\* One run of run_external_command: the subcommand and whether it exited
\* with status 0.
Proc(cmd, ok) == [cmd |-> cmd, ok |-> ok]

\* Faulty variant: the status of logout is not looked at, login runs anyway.
create_IgnoresLogoutStatus(p, c, name, lo, c1, li, c2) ==
    LET r == read_profiles(p)
        d == read_cli_toml(c2)
        ran == <<Proc("logout", lo), Proc("login", li)>>
    IN  IF ~r.ok THEN [Outcome(p, c, "Corrupt") EXCEPT !.name = name]
        ELSE IF name \in DOMAIN r.map
        THEN [Outcome(r.file, c, "AlreadyExists") EXCEPT !.name = name]
        ELSE IF ~li
        THEN [Outcome(r.file, c2, "SubprocessError") EXCEPT !.name = name, !.procs = ran]
        ELSE IF c2.st = "absent"
        THEN [Outcome(r.file, c2, "DocNotFound") EXCEPT !.name = name, !.procs = ran]
        ELSE IF ~d.ok
        THEN [Outcome(r.file, c2, "ParseError") EXCEPT !.name = name, !.procs = ran]
        ELSE [capture_token(r.file, r.map, c2, d.doc, name) EXCEPT !.procs = ran]

\* Commands::Create.  lo / li: logout / login exited with status 0;
\* c1 / c2: cli.toml after logout / after login.  `procs` lists the
\* subprocesses in the order they were run, each with its status.
create(p, c, name, lo, c1, li, c2) ==
    LET r == read_profiles(p)
        d == read_cli_toml(c2)
    IN  IF ~r.ok THEN [Outcome(p, c, "Corrupt") EXCEPT !.name = name]
        ELSE IF name \in DOMAIN r.map
        THEN [Outcome(r.file, c, "AlreadyExists") EXCEPT !.name = name]
        ELSE IF ~lo
        THEN [Outcome(r.file, c1, "SubprocessError") EXCEPT
                !.name = name, !.procs = <<Proc("logout", lo)>>]
        ELSE IF ~li
        THEN [Outcome(r.file, c2, "SubprocessError") EXCEPT
                !.name = name, !.procs = <<Proc("logout", lo), Proc("login", li)>>]
        ELSE IF c2.st = "absent"
        THEN [Outcome(r.file, c2, "DocNotFound") EXCEPT
                !.name = name, !.procs = <<Proc("logout", lo), Proc("login", li)>>]
        ELSE IF ~d.ok
        THEN [Outcome(r.file, c2, "ParseError") EXCEPT
                !.name = name, !.procs = <<Proc("logout", lo), Proc("login", li)>>]
        ELSE [capture_token(r.file, r.map, c2, d.doc, name) EXCEPT
                !.procs = <<Proc("logout", lo), Proc("login", li)>>]

\* ------------------------------------------- two concurrent invocations
\* Two processes of the tool running at once on the same two files.  Each
\* file read and each file write of Commands::Set is one step.
Invocations == {1, 2}

\* The memory of an invocation of set(name, token) before its first step.
Memory(name, token) ==
    [name |-> name, token |-> token, map |-> EmptyMap, doc |-> EmptyDoc, res |-> "running"]

\* Faulty variant: the entry is not put into the map that is written.
set_write_profiles_NoInsert(m, name, token) == write_profiles(m)

\* Lines 279-282 of Set: insert into the map read earlier, write the file.
set_write_profiles(m, name, token) == write_profiles(Insert(m, name, token))

\* Lines 299-300 of Set: assign the key in the document read earlier,
\* write the file.
set_write_cli_toml(doc, token) == write_cli_toml(set_active_token(doc, token))

\* ------------------------------------------------------- state machine
\* `last` records the command that ran last: its arguments, what it
\* reported, the files it started from (pre), whether it repeats the
\* command before it with the same arguments (repeat, for set), and the
\* profile a directly preceding successful switch selected (prevSwitch,
\* for current).
Record(cmd, name, token, o, repeat, prevSwitch) ==
    [cmd |-> cmd, name |-> name, token |-> token, res |-> o.res, out |-> o.out,
     reported |-> o.reported, marks |-> o.marks, listed |-> o.listed,
     procs |-> o.procs, pre |-> [profiles |-> profiles, cli |-> cli],
     repeat |-> repeat, prevSwitch |-> prevSwitch]

Run(cmd, token, o, repeat, prevSwitch) ==
    /\ profiles' = o.profiles
    /\ cli' = o.cli
    /\ last' = Record(cmd, o.name, token, o, repeat, prevSwitch)
    /\ UNCHANGED <<maskIn, maskOut, pc, mem>>

Init ==
    /\ profiles \in ProfileFiles
    /\ cli \in CliFiles
    /\ last = Record("none", NoName, NoToken, Outcome(profiles, cli, "ok"), FALSE, NoName)
    /\ maskIn = <<>>
    /\ maskOut = NotCalled
    /\ pc = [i \in Invocations |-> "done"]
    /\ mem = [i \in Invocations |-> Memory(NoName, NoToken)]

Set ==
    \E name \in Names, token \in Tokens :
        Run("set", token, set(profiles, cli, name, token),
            last.cmd = "set" /\ last.name = name /\ last.token = token, NoName)

Switch ==
    \E arg \in Names \cup {NoName} :
        \E sel \in (IF arg = NoName THEN DOMAIN read_profiles(profiles).map ELSE {}) \cup {NoName} :
            Run("switch", NoToken, switch(profiles, cli, arg, sel), FALSE, NoName)

Admin == Run("admin", NoToken, admin(profiles, cli), FALSE, NoName)

Save == \E name \in Names : Run("save", NoToken, save(profiles, cli, name), FALSE, NoName)

Reset == Run("reset", NoToken, reset(profiles, cli), FALSE, NoName)

Create ==
    \E name \in Names, lo \in BOOLEAN, li \in BOOLEAN :
        \E c1 \in logout_effects(cli) :
            \E c2 \in login_effects(c1) :
                Run("create", NoToken, create(profiles, cli, name, lo, c1, li, c2), FALSE, NoName)

List == Run("list", NoToken, list(profiles, cli), FALSE, NoName)

Current ==
    \E pick \in current_matches(read_profiles(profiles).map,
                                IF active_token_opt(cli) = {} THEN NoToken
                                ELSE cli.doc[TokenKey].v) \cup {NoName} :
        /\ pick = NoName => current(profiles, cli, pick).out # "Profile"
        /\ Run("current", NoToken, current(profiles, cli, pick), FALSE,
               IF last.cmd = "switch" /\ last.res = "ok" THEN last.name ELSE NoName)

Delete == \E name \in Names : Run("delete", NoToken, delete(profiles, cli, name), FALSE, NoName)

Next ==
    \/ Set
    \/ Switch
    \/ Admin
    \/ Save
    \/ Reset
    \/ Create
    \/ List
    \/ Current
    \/ Delete

Spec == Init /\ [][Next]_vars

\* ---------------------------------------------------------- properties
\* The profile store a command starts from and the one it leaves: the map
\* a load of profiles.toml returns.  A file that does not parse holds no
\* store (PreLoadable is false).
PreLoadable == last.pre.profiles.st # "corrupt"
PreStore == read_profiles(last.pre.profiles).map
Store == read_profiles(profiles).map
PreCli == last.pre.cli

\* The document holds the string `t` under the token key.
ActiveIs(c, t) == c.st = "ok" /\ TokenKey \in DOMAIN c.doc /\ c.doc[TokenKey] = Str(t)
\* The document holds some string under the token key.
HasActiveToken(c) == c.st = "ok" /\ TokenKey \in DOMAIN c.doc /\ c.doc[TokenKey].type = "str"
\* No two profiles of the map hold the same token.
DistinctTokens(m) == \A x \in DOMAIN m : \A y \in DOMAIN m : m[x] = m[y] => x = y

\* A current that directly follows a successful switch(name) reports `name`
\* when no other profile holds the token of `name`.
CurrentAfterSwitch ==
    (/\ last.cmd = "current"
     /\ last.prevSwitch # NoName
     /\ \A n \in DOMAIN Store : Store[n] = Store[last.prevSwitch] => n = last.prevSwitch)
    => (last.res = "ok" /\ last.out = "Profile" /\ last.reported = last.prevSwitch)

\* C1 as stated: for any profile store that contains name, switch(name)
\* succeeds, sets the active-token key of the external document to the
\* token stored under name and leaves the profile store unchanged; a
\* subsequent current reports name when no other profile holds that token.
C1_SwitchAlwaysSucceeds ==
    /\ (last.cmd = "switch" /\ last.name \in DOMAIN PreStore)
        => (/\ last.res = "ok"
            /\ ActiveIs(cli, PreStore[last.name])
            /\ profiles = last.pre.profiles)
    /\ CurrentAfterSwitch

\* C1 amended: for any profile store that contains name, switch(name)
\* succeeds when cli.toml is absent or parses, and then sets the token key
\* to the token stored under name and leaves the profile store unchanged;
\* when cli.toml exists and does not parse, switch(name) fails with the
\* parse error and changes neither file.  A current right after a
\* successful switch(name) reports name when no other profile holds that
\* token.
C1_SwitchActivatesProfile ==
    /\ (last.cmd = "switch" /\ last.name \in DOMAIN PreStore)
        => IF PreCli.st = "unparsable"
           THEN last.res = "ParseError" /\ cli = PreCli /\ profiles = last.pre.profiles
           ELSE /\ last.res = "ok"
                /\ ActiveIs(cli, PreStore[last.name])
                /\ profiles = last.pre.profiles
    /\ CurrentAfterSwitch

\* current reports "a" right after switch("a") moved the active token away
\* from another profile's token.
C1_Witness ==
    /\ last.cmd = "current"
    /\ last.prevSwitch = "a"
    /\ last.reported = "a"
    /\ \E n \in DOMAIN Store : n # "a" /\ Store[n] # Store["a"]

\* C2: switch(name) with a name that is no key of the profile store fails
\* with NotFound, leaves cli.toml as it was (not written, not created) and
\* leaves the profile map unchanged.
C2_SwitchMissingLeavesDocument ==
    (/\ last.cmd = "switch"
     /\ PreLoadable
     /\ last.name # NoName
     /\ last.name \notin DOMAIN PreStore)
    => (last.res = "NotFound" /\ cli = PreCli /\ Store = PreStore)

\* A switch to a missing name while cli.toml did not exist and other
\* profiles did: the file still does not exist.
C2_Witness ==
    /\ last.cmd = "switch"
    /\ last.res = "NotFound"
    /\ PreStore # EmptyMap
    /\ PreCli.st = "absent"
    /\ cli.st = "absent"

\* C3: set(name, token) is idempotent: a set that repeats the set before it
\* with the same arguments changes neither file, from any state of the two
\* files; a set that succeeds leaves name -> token in the store, every
\* other profile as it was, and token as the active token.
C3_SetIdempotent ==
    /\ (last.cmd = "set" /\ last.repeat)
        => (profiles = last.pre.profiles /\ cli = PreCli)
    /\ (last.cmd = "set" /\ last.res = "ok")
        => (/\ Store = Insert(PreStore, last.name, last.token)
            /\ ActiveIs(cli, last.token))

\* The second of two equal sets, on a store that holds another profile too.
C3_Witness ==
    /\ last.cmd = "set"
    /\ last.repeat
    /\ last.res = "ok"
    /\ \E n \in DOMAIN Store : n # last.name

\* C4 as stated: save(name) is rejected with AlreadyExists if and only if
\* name is already a key of the profile store, whatever the token value of
\* the external document; a rejection does not mutate the store.
C4_AlreadyExistsIffKey ==
    last.cmd = "save"
    => (/\ last.res = "AlreadyExists" <=> last.name \in DOMAIN PreStore
        /\ last.res = "AlreadyExists" => profiles = last.pre.profiles)

\* C4 amended: save(name) is rejected with AlreadyExists if and only if
\* name is already a key of the profile store and cli.toml exists and
\* parses, whatever it holds under the token key; when cli.toml is absent
\* or does not parse, save is rejected with that error before the name is
\* looked up.  None of these rejections mutates the store.
C4_AlreadyExistsIffKeyAndDocument ==
    last.cmd = "save"
    => (/\ last.res = "AlreadyExists"
            <=> (last.name \in DOMAIN PreStore /\ PreCli.st = "ok")
        /\ PreCli.st = "absent" => last.res = "DocNotFound"
        /\ PreCli.st = "unparsable" => last.res = "ParseError"
        /\ last.res \in {"AlreadyExists", "DocNotFound", "ParseError"}
            => profiles = last.pre.profiles)

\* save of an existing name is rejected while cli.toml holds no token.
C4_Witness ==
    /\ last.cmd = "save"
    /\ last.res = "AlreadyExists"
    /\ PreCli.st = "ok"
    /\ TokenKey \notin DOMAIN PreCli.doc

\* C5: save(name) with name not in the store succeeds only when the token
\* key of cli.toml exists and holds a string; it then adds exactly
\* name -> that token and changes neither another profile nor cli.toml.
\* When the key is missing (not logged in) or holds no string, save fails
\* and the store is unchanged.
C5_SaveCapturesActiveToken ==
    (last.cmd = "save" /\ PreLoadable /\ last.name \notin DOMAIN PreStore)
    => (/\ last.res = "ok" => HasActiveToken(PreCli)
        /\ last.res = "ok"
            => (/\ Store = Insert(PreStore, last.name, PreCli.doc[TokenKey].v)
                /\ cli = PreCli)
        /\ ~HasActiveToken(PreCli) => (last.res # "ok" /\ Store = PreStore)
        /\ (PreCli.st = "ok" /\ TokenKey \notin DOMAIN PreCli.doc)
            => last.res = "NotLoggedIn"
        /\ (PreCli.st = "ok" /\ TokenKey \in DOMAIN PreCli.doc /\ ~HasActiveToken(PreCli))
            => last.res = "WrongType")

\* A save that succeeded on a store that already held a profile.
C5_Witness ==
    /\ last.cmd = "save"
    /\ last.res = "ok"
    /\ PreStore # EmptyMap
    /\ last.name \notin DOMAIN PreStore

\* C6: delete(name) fails with NotFound and leaves the store unchanged if
\* and only if name was no key; otherwise it removes exactly that key,
\* keeps every other profile with its token and persists the result.
C6_DeleteRemovesExactlyName ==
    (last.cmd = "delete" /\ PreLoadable)
    => IF last.name \notin DOMAIN PreStore
       THEN last.res = "NotFound" /\ Store = PreStore
       ELSE /\ last.res = "ok"
            /\ profiles.st = "ok"
            /\ DOMAIN profiles.map = (DOMAIN PreStore) \ {last.name}
            /\ \A n \in DOMAIN profiles.map : profiles.map[n] = PreStore[n]

\* A delete that removed one of two profiles holding the same token.
C6_Witness ==
    /\ last.cmd = "delete"
    /\ last.res = "ok"
    /\ \E n \in DOMAIN Store : Store[n] = PreStore[last.name]

\* C7 as stated: in every listing at most one profile carries the
\* "current" annotation, also when several profiles hold the active token.
C7_AtMostOneCurrent ==
    last.cmd = "list" => Cardinality(last.marks) <= 1

\* C8: when the active token is a string and the stored tokens are
\* pairwise distinct, current reports exactly the profile whose token is
\* the active token, or that none matches, and list marks that profile
\* and no other.
C8_CurrentAndListAgree ==
    (PreLoadable /\ HasActiveToken(PreCli) /\ DistinctTokens(PreStore))
    => LET tok == PreCli.doc[TokenKey].v
           holders == {n \in DOMAIN PreStore : PreStore[n] = tok}
       IN  /\ last.cmd = "current"
                => (/\ last.res = "ok"
                    /\ IF holders = {}
                       THEN last.out = "NoProfileMatches" /\ last.reported = NoName
                       ELSE last.out = "Profile" /\ holders = {last.reported})
           /\ last.cmd = "list"
                => (last.res = "ok" /\ last.marks = holders /\ Cardinality(last.marks) <= 1)

\* list on a store of two profiles with different tokens marks only "b".
C8_Witness ==
    /\ last.cmd = "list"
    /\ last.marks = {"b"}
    /\ "a" \in DOMAIN PreStore
    /\ DistinctTokens(PreStore)

\* C9 as stated: whenever set, switch, admin, save, create, delete or
\* reset ends in an error, the profile store and the external document
\* hold what they held before the command started.
C9_AllOrNothing ==
    (/\ last.cmd \in {"set", "switch", "admin", "save", "create", "delete", "reset"}
     /\ last.res # "ok")
    => (Store = PreStore /\ cli = PreCli)

\* The part of a document outside the token key.
OtherKeys(c) == [k \in (DOMAIN c.doc) \ {TokenKey} |-> c.doc[k]]

\* C10: no command other than create changes, adds or removes a key of
\* cli.toml other than the token key; a file that does not parse is left
\* as it is.
C10_OnlyTokenKeyChanges ==
    last.cmd \in {"set", "switch", "admin", "save", "delete", "list", "current", "reset"}
    => (/\ OtherKeys(cli) = OtherKeys(PreCli)
        /\ PreCli.st = "ok" => cli.st = "ok"
        /\ PreCli.st = "unparsable" => cli = PreCli)

\* A switch replaced the active token of a document that holds another key.
C10_Witness ==
    /\ last.cmd = "switch"
    /\ last.res = "ok"
    /\ HasActiveToken(PreCli)
    /\ cli.doc[TokenKey] # PreCli.doc[TokenKey]
    /\ OtherKey \in DOMAIN cli.doc

\* C11: create(name) fails before any subprocess is run when name exists;
\* otherwise logout runs first, login runs only after logout exited with
\* status 0, and the store is written only after both exited with 0 and
\* cli.toml then holds a string under the token key.  A non-zero exit of
\* either subprocess or a missing token after login fails the command with
\* the store unchanged; on success the store gains exactly name -> the
\* active token.
C11_CreateOrder ==
    (last.cmd = "create" /\ PreLoadable)
    => LET ran == last.procs
       IN  IF last.name \in DOMAIN PreStore
           THEN /\ last.res = "AlreadyExists"
                /\ ran = <<>>
                /\ cli = PreCli
                /\ Store = PreStore
           ELSE /\ Len(ran) \in {1, 2}
                /\ ran[1].cmd = "logout"
                /\ Len(ran) = 2 <=> ran[1].ok
                /\ Len(ran) = 2 => ran[2].cmd = "login"
                /\ (\E i \in 1..Len(ran) : ~ran[i].ok) => last.res = "SubprocessError"
                /\ last.res = "ok"
                    <=> (/\ Len(ran) = 2
                         /\ ran[1].ok
                         /\ ran[2].ok
                         /\ HasActiveToken(cli))
                /\ last.res # "ok" => Store = PreStore
                /\ last.res = "ok"
                    => Store = Insert(PreStore, last.name, cli.doc[TokenKey].v)

\* A create that succeeded from a store with another profile and a
\* cli.toml without a token: the token login stored is now in the store.
C11_Witness ==
    /\ last.cmd = "create"
    /\ last.res = "ok"
    /\ PreStore # EmptyMap
    /\ ~HasActiveToken(PreCli)
    /\ last.procs = <<Proc("logout", TRUE), Proc("login", TRUE)>>

\* C13: reset has no precondition and no failure case: from any state of
\* profiles.toml it leaves the empty store on disk and cli.toml, its
\* active token included, as it was; a list run next reports that no
\* profiles are found.
C13_ResetClearsStore ==
    last.cmd = "reset"
    => (/\ last.res = "ok"
        /\ profiles.st = "ok"
        /\ DOMAIN profiles.map = {}
        /\ cli = PreCli
        /\ list(profiles, cli).res = "ok"
        /\ list(profiles, cli).out = "NoProfilesFound")

\* A reset of a store that held profiles, with a token active in cli.toml.
C13_Witness ==
    /\ last.cmd = "reset"
    /\ PreStore # EmptyMap
    /\ HasActiveToken(cli)

\* C15: save, delete, reset, list and current never write cli.toml.  After
\* delete(name) of the profile whose token is the active token, no other
\* profile sharing it, the active token is still that token and a current
\* run next reports that it is found under no profile name.
C15_RemovalKeepsActiveToken ==
    /\ last.cmd \in {"save", "delete", "reset", "list", "current"} => cli = PreCli
    /\ (/\ last.cmd = "delete"
        /\ last.res = "ok"
        /\ ActiveIs(PreCli, PreStore[last.name])
        /\ \A n \in DOMAIN PreStore : PreStore[n] = PreStore[last.name] => n = last.name)
        => (/\ ActiveIs(cli, PreStore[last.name])
            /\ \A pick \in Names \cup {NoName} :
                /\ current(profiles, cli, pick).res = "ok"
                /\ current(profiles, cli, pick).out = "NoProfileMatches")

\* The active profile was deleted, another profile is left, and the token
\* of the deleted profile is still the active token.
C15_Witness ==
    /\ last.cmd = "delete"
    /\ last.res = "ok"
    /\ Store # EmptyMap
    /\ ActiveIs(cli, PreStore[last.name])
    /\ \A n \in DOMAIN Store : Store[n] # PreStore[last.name]

\* ------------------------------------------- specification: mask_token
\* The token of the example of the masking rule, and every token of up to
\* MaxTokenLen characters.
ExampleToken ==
    <<"0", "1", "2", "3", "4", "5", "6", "7", "8", "9", "A", "B", "C", "D", "E", "F">>
MaskInputs == {ExampleToken} \cup UNION {[1..n -> MaskChars] : n \in 0..MaxTokenLen}

MaskInit ==
    /\ profiles = [st |-> "absent", map |-> EmptyMap]
    /\ cli = [st |-> "absent", doc |-> EmptyDoc]
    /\ last = Record("none", NoName, NoToken, Outcome(profiles, cli, "ok"), FALSE, NoName)
    /\ maskIn \in MaskInputs
    /\ maskOut = NotCalled
    /\ pc = [i \in Invocations |-> "done"]
    /\ mem = [i \in Invocations |-> Memory(NoName, NoToken)]

MaskToken ==
    /\ maskOut = NotCalled
    /\ maskOut' = mask_token(maskIn)
    /\ UNCHANGED <<profiles, cli, last, maskIn, pc, mem>>

MaskNext == MaskToken

SpecMask == MaskInit /\ [][MaskNext]_vars

\* What the masking rule says of a token of Len(s) characters.
MaskedAsStated(s) ==
    IF Len(s) <= 10 THEN s
    ELSE SubSeq(s, 1, 5) \o Dots \o SubSeq(s, Len(s) - 4, Len(s))

\* C14 as stated: every token of length <= 10 is returned unchanged; every
\* longer token gives its first 5 characters, "..." and its last 5
\* characters, 13 characters in all; "0123456789ABCDEF" gives
\* "01234...BCDEF".
C14_MaskAsStated ==
    maskOut # NotCalled
    => (/\ maskOut = Returned(MaskedAsStated(maskIn))
        /\ Len(maskIn) > 10 => Len(maskOut.s) = 13
        /\ maskIn = ExampleToken
            => maskOut.s = <<"0", "1", "2", "3", "4", ".", ".", ".", "B", "C", "D", "E", "F">>)

\* C14 for tokens of one-byte characters only (the tokens the external
\* tool issues): there the result is the one stated.
C14_MaskAsStatedOneByteChars ==
    (maskOut # NotCalled /\ \A i \in 1..Len(maskIn) : Utf8Len(maskIn[i]) = 1)
    => (/\ maskOut = Returned(MaskedAsStated(maskIn))
        /\ Len(maskIn) > 10 => Len(maskOut.s) = 13
        /\ maskIn = ExampleToken
            => maskOut.s = <<"0", "1", "2", "3", "4", ".", ".", ".", "B", "C", "D", "E", "F">>)

\* ------------------------------ specification: two concurrent `set`
\* The store the two invocations start on holds at most one profile, and
\* cli.toml holds no key but the token key.
RaceProfileFiles == {f \in ProfileFiles : \A x \in DOMAIN f.map : \A y \in DOMAIN f.map : x = y}
RaceCliFiles == {c \in CliFiles : OtherKey \notin DOMAIN c.doc}

RaceInit ==
    /\ profiles \in RaceProfileFiles
    /\ cli \in RaceCliFiles
    /\ last = Record("none", NoName, NoToken, Outcome(profiles, cli, "ok"), FALSE, NoName)
    /\ maskIn = <<>>
    /\ maskOut = NotCalled
    /\ pc = [i \in Invocations |-> "read_profiles"]
    /\ mem \in [Invocations -> {Memory(n, t) : n \in Names, t \in Tokens}]

\* read_profiles(&settings)? (line 278)
SetReadProfiles(i) ==
    /\ pc[i] = "read_profiles"
    /\ LET r == read_profiles(profiles)
       IN  /\ profiles' = r.file
           /\ IF r.ok
              THEN /\ mem' = [mem EXCEPT ![i].map = r.map]
                   /\ pc' = [pc EXCEPT ![i] = "write_profiles"]
              ELSE /\ mem' = [mem EXCEPT ![i].res = "Corrupt"]
                   /\ pc' = [pc EXCEPT ![i] = "done"]
    /\ UNCHANGED <<cli, last, maskIn, maskOut>>

\* profiles.0.insert(..); write_profiles(&settings, &profiles)? (lines 279-282)
SetWriteProfiles(i) ==
    /\ pc[i] = "write_profiles"
    /\ profiles' = set_write_profiles(mem[i].map, mem[i].name, mem[i].token)
    /\ pc' = [pc EXCEPT ![i] = "open_cli_toml"]
    /\ UNCHANGED <<cli, last, maskIn, maskOut, mem>>

\* The read of cli.toml, or the new document (lines 289-298)
SetOpenCliToml(i) ==
    /\ pc[i] = "open_cli_toml"
    /\ LET d == open_or_new_cli_toml(cli)
       IN  IF d.ok
           THEN /\ mem' = [mem EXCEPT ![i].doc = d.doc]
                /\ pc' = [pc EXCEPT ![i] = "write_cli_toml"]
           ELSE /\ mem' = [mem EXCEPT ![i].res = "ParseError"]
                /\ pc' = [pc EXCEPT ![i] = "done"]
    /\ UNCHANGED <<profiles, cli, last, maskIn, maskOut>>

\* cli_toml[key] = token; write_cli_toml(&settings, &cli_toml)? (lines 299-300)
SetWriteCliToml(i) ==
    /\ pc[i] = "write_cli_toml"
    /\ cli' = set_write_cli_toml(mem[i].doc, mem[i].token)
    /\ mem' = [mem EXCEPT ![i].res = "ok"]
    /\ pc' = [pc EXCEPT ![i] = "done"]
    /\ UNCHANGED <<profiles, last, maskIn, maskOut>>

RaceNext ==
    \E i \in Invocations :
        \/ SetReadProfiles(i)
        \/ SetWriteProfiles(i)
        \/ SetOpenCliToml(i)
        \/ SetWriteCliToml(i)

SpecRace == RaceInit /\ [][RaceNext]_vars

\* Both invocations have ended, both with success, and they were given
\* different names.
BothSetSucceeded ==
    /\ \A i \in Invocations : pc[i] = "done" /\ mem[i].res = "ok"
    /\ mem[1].name # mem[2].name

\* C12: two invocations of set with different names, started on the same
\* store, can both succeed and leave a store without one of the two
\* profiles (C12_Witness is such an end).  What they leave is always the
\* map one of them read, with that invocation's own entry put in: the
\* other profile is in the store exactly when it was in that map.
C12_LastWriterWins ==
    BothSetSucceeded
    => \E i \in Invocations :
        /\ profiles = [st |-> "ok", map |-> Insert(mem[i].map, mem[i].name, mem[i].token)]
        /\ \A j \in Invocations \ {i} :
            (mem[j].name \in DOMAIN profiles.map) <=> (mem[j].name \in DOMAIN mem[i].map)

\* Both invocations succeeded and the profile of one of them is not in the
\* store.
C12_Witness ==
    /\ BothSetSucceeded
    /\ \E i \in Invocations : mem[i].name \notin DOMAIN profiles.map

====
